---- MODULE Spec2Model ----
(***************************************************************************)
(* Model of the pricing engine (src/calculator.py, BettingCalculator), of   *)
(* the exposure tracker (src/bet_manager.py, BetManager) and of the bot     *)
(* loop that drives them (src/app.py, BotRunner.run and process_race).     *)
(*                                                                         *)
(* Numbers.  Prices enter as decimal odds with two decimals and are given  *)
(* here in hundredths (3.0 is 300).  Inside the calculator a price is an   *)
(* integer count of 1/Unit hundredths, which represents every intermediate *)
(* value of the formula exactly for the divisors 4 and 5 and the margin    *)
(* 1.10.  The code computes in binary64.  Its rounding error is far below  *)
(* 1/Unit hundredths, so it can show in two places only: a comparison of   *)
(* two values that are equal in exact arithmetic, and round(x, 2) of a     *)
(* value that lies exactly halfway between two hundredths.  fp_mode holds  *)
(* the outcome of these cases; it is chosen freely in Init and then fixed, *)
(* because the arithmetic is deterministic.  place_fair and place_min are  *)
(* never both halfway for the same win price (place_fair is halfway only   *)
(* for divisor 4 and a win price w with w - 100 = 2 mod 4, place_min with  *)
(* divisor 4 only for w - 100 = 20 mod 40), so one flag serves both.       *)
(*                                                                         *)
(* None.  A value that may be None is a sequence of length at most one     *)
(* (None is <<>>, a present value x is <<x>>) when it is a number, and the *)
(* string "None" when it is a string.  Money (stakes, exposure) is given   *)
(* in whole currency units.                                                *)
(***************************************************************************)
EXTENDS Integers, Sequences, FiniteSets, TLC

VARIABLES
    divisor_rules,      \* BettingCalculator.divisor_rules
    safety_margin,      \* BettingCalculator.safety_margin, as num/den
    fp_mode,            \* outcome of binary64 rounding at ties (see above)
    calc_call,          \* arguments of the last should_bet call
    calc_local,         \* unrounded place_fair, place_min of that call
    calc_ret,           \* its return value <<should_bet, details>>
    per_race_stop_loss, \* BetManager.per_race_stop_loss
    stake,              \* BetManager.stake
    race_exposure,      \* BetManager.race_exposure (dict: market_id -> amount)
    placed_bets,        \* BetManager.placed_bets (list of bet records)
    now,                \* the clock read by datetime.now()
    bm_call,            \* the last BetManager call and its arguments
    bm_ret,             \* the value that call returned
    threads,            \* concurrent callers of one method: position and locals
    bot,                \* BotRunner: fields, position in run/process_race, locals
    bot_stats,          \* the global bot_stats counters
    orders,             \* the orders submitted through BetfairClient.place_bet
    last_eval,          \* the runner iteration of the bot's last should_bet call
    last_check,         \* the runner iteration of the bot's last can_bet_on_race call
    gate_closed,        \* races for which can_bet_on_race returned False to the bot
    stats_io,           \* the bot thread's statistics update and the status requests
    bot_running,        \* the global bot_running
    bot_instance,       \* the global bot_instance: an index of instances, or NoInstance
    runs,               \* the bot threads start_bot has created, in order
    instances,          \* the BotRunner objects the bot threads have created, in order
    managers            \* the BetManager objects initialize has created, in order

calc_vars == <<divisor_rules, safety_margin, fp_mode, calc_call, calc_local, calc_ret>>
bm_vars == <<per_race_stop_loss, stake, race_exposure, placed_bets, now, bm_call, bm_ret>>
conc_vars == <<threads>>
bot_vars == <<bot, bot_stats, orders, last_eval, last_check, gate_closed>>
life_vars == <<stats_io, bot_running, bot_instance, runs, instances, managers>>
vars == <<divisor_rules, safety_margin, fp_mode, calc_call, calc_local, calc_ret,
          per_race_stop_loss, stake, race_exposure, placed_bets, now, bm_call, bm_ret,
          threads, bot, bot_stats, orders, last_eval, last_check, gate_closed,
          stats_io, bot_running, bot_instance, runs, instances, managers>>

(***************************************************************************)
(* Bounds and input sets                                                   *)
(***************************************************************************)
MaxRunners == 15
MaxBets == 3
\* the runners of a race the exchange quotes prices for
MaxPriced == 3
\* the scans of one bot run
MaxCycles == 2
\* the bot threads start_bot creates
MaxRuns == 2

\* the runner counts should_bet is called with: 0, and the counts around
\* and inside the divisor table
RunnerCounts == {0} \cup (6..MaxRunners)
\* hundredths; 100 is the invalid price 1.0
WinLayPrices == {100, 112, 150, 200, 300, 400}
PlacePrices == {100, 103, 127, 128, 150, 155, 162, 166}

MarketIds == {"1.101", "1.102"}
\* a market id that no record_bet call ever uses
UnseenMarketId == "1.999"
QueryIds == MarketIds \cup {UnseenMarketId}
\* the runners of each market: name, selection id and place back price
RunnersOf(m) ==
    IF m = "1.101"
    THEN {[runner_name |-> "Alpha", selection_id |-> 11, price |-> 162]}
    ELSE {[runner_name |-> "Comet", selection_id |-> 21, price |-> 166]}
Stakes == {10, 20}
StopLosses == {20, 30}
\* results of BetfairClient.place_bet, and a dict with no 'success' key
BetResults ==
    {[success |-> TRUE, bet_id |-> "B1"],
     [success |-> FALSE, error |-> "ERR"],
     [error |-> "TIMEOUT"]}

(***************************************************************************)
(* Helpers                                                                 *)
(***************************************************************************)
None == <<>>
Some(x) == <<x>>
NoneStr == "None"

\* dict.get(key, default)
Get(d, key, default) == IF key \in DOMAIN d THEN d[key] ELSE default

\* number of 1/Unit parts in one hundredth
Unit == 2 * 100
\* the price 1.0
ONE == 100 * Unit
\* a price given in hundredths, as the calculator holds it
Px(h) == h * Unit

\* round(x, 2): the possible results, in hundredths.  A value exactly
\* halfway goes up or down according to the binary neighbour (up).
Round2(x, up) ==
    LET q == x \div Unit
        r == x % Unit
    IN  IF 2 * r < Unit THEN q
        ELSE IF 2 * r > Unit THEN q + 1
        ELSE IF up THEN q + 1 ELSE q

\* min_above: place_min came out above the double of the decimal it equals
\* in exact arithmetic; tie_up, edge_up: the direction in which round(x, 2)
\* takes a halfway place_fair or place_min, and a halfway edge
FpModes == [min_above : BOOLEAN, tie_up : BOOLEAN, edge_up : BOOLEAN]

(***************************************************************************)
(* BettingCalculator                                                       *)
(***************************************************************************)
DivisorRules == (8 :> 5) @@ [n \in 9..14 |-> 4]

\* mutant: a range test with no upper end in place of the table lookup
get_divisor_open_range(num_runners) ==
    IF num_runners >= 8 THEN Some(IF num_runners = 8 THEN 5 ELSE 4) ELSE None

get_divisor(num_runners) ==
    IF num_runners \in DOMAIN divisor_rules THEN Some(divisor_rules[num_runners]) ELSE None

\* mutant: the win price is divided without taking 1 off first
calculate_fair_place_odds_no_sub(win_lay_price, num_runners) ==
    LET divisor == get_divisor(num_runners)
    IN  IF divisor = None
        THEN None
        ELSE Some((win_lay_price \div divisor[1]) + ONE)

calculate_fair_place_odds(win_lay_price, num_runners) ==
    LET divisor == get_divisor(num_runners)
    IN  IF divisor = None
        THEN None
        ELSE Some(((win_lay_price - ONE) \div divisor[1]) + ONE)

\* mutant: the margin is applied to the whole price, not to the profit part
calculate_minimum_place_odds_whole(place_fair) ==
    (place_fair * safety_margin.num) \div safety_margin.den

calculate_minimum_place_odds(place_fair) ==
    LET profit_part == place_fair - ONE
        buffered_profit == (profit_part * safety_margin.num) \div safety_margin.den
    IN  ONE + buffered_profit

\* mutant: the comparison is made against the rounded minimum
should_place_bet_rounded(actual_place_price, place_min, min_above) ==
    actual_place_price >= Px(Round2(place_min, FALSE))

\* mutant: the comparison is reversed
should_place_bet_reversed(actual_place_price, place_min, min_above) ==
    actual_place_price <= place_min

\* actual_place_price >= place_min, on binary64 values
should_place_bet(actual_place_price, place_min, min_above) ==
    \/ actual_place_price > place_min
    \/ actual_place_price = place_min /\ ~min_above

\* mutant: the edge is not zeroed for an unfavorable decision
edge_of_unconditional(actual_place_price, place_min, sb, up) ==
    Round2(actual_place_price - place_min, up)

\* round(actual_place_price - place_min, 2) if should_place_bet else 0
edge_of(actual_place_price, place_min, sb, up) ==
    IF sb THEN Round2(actual_place_price - place_min, up) ELSE 0

should_bet(win_lay_price, actual_place_price, num_runners) ==
    LET place_fair == calculate_fair_place_odds(Px(win_lay_price), num_runners)
    IN  IF place_fair = None
        THEN /\ calc_local' = None
             /\ calc_ret' = <<FALSE, [error |-> "does not qualify",
                                      num_runners |-> num_runners]>>
        ELSE LET place_min == calculate_minimum_place_odds(place_fair[1])
                 sb == should_place_bet(Px(actual_place_price), place_min, fp_mode.min_above)
             IN  /\ calc_local' = Some([place_fair |-> place_fair[1], place_min |-> place_min])
                 /\ calc_ret' = <<sb,
                        [win_lay_price |-> win_lay_price,
                         num_runners |-> num_runners,
                         divisor |-> get_divisor(num_runners)[1],
                         place_fair |-> Round2(place_fair[1], fp_mode.tie_up),
                         place_min |-> Round2(place_min, fp_mode.tie_up),
                         actual_place_price |-> actual_place_price,
                         should_bet |-> sb,
                         edge |-> edge_of(Px(actual_place_price), place_min, sb,
                                          fp_mode.edge_up)]>>

ShouldBet ==
    \E w \in WinLayPrices, a \in PlacePrices, n \in RunnerCounts :
        /\ calc_call' = Some([win_lay_price |-> w, actual_place_price |-> a,
                              num_runners |-> n])
        /\ should_bet(w, a, n)
        /\ UNCHANGED <<divisor_rules, safety_margin, fp_mode>>
        /\ UNCHANGED bm_vars
        /\ UNCHANGED <<conc_vars, bot_vars, life_vars>>

(***************************************************************************)
(* BetManager                                                              *)
(***************************************************************************)
\* the call that bm_call holds before any call was made
NoCall == [op |-> "none"]

\* sum(self.race_exposure.values())
RECURSIVE SumValues(_, _)
SumValues(d, keys) ==
    IF keys = {} THEN 0
    ELSE LET k == CHOOSE x \in keys : TRUE
         IN  d[k] + SumValues(d, keys \ {k})

\* mutant: the stop-loss test is strict
can_bet_on_race_strict(market_id) ==
    LET current_exposure == Get(race_exposure, market_id, 0)
    IN  IF current_exposure > per_race_stop_loss THEN FALSE ELSE TRUE

can_bet_on_race(market_id) ==
    LET current_exposure == Get(race_exposure, market_id, 0)
    IN  IF current_exposure >= per_race_stop_loss THEN FALSE ELSE TRUE

CanBetOnRace ==
    \E m \in QueryIds :
        /\ bm_call' = [op |-> "can_bet_on_race", market_id |-> m]
        /\ bm_ret' = Some(can_bet_on_race(m))
        /\ UNCHANGED <<per_race_stop_loss, stake, race_exposure, placed_bets, now>>
        /\ UNCHANGED calc_vars
        /\ UNCHANGED <<conc_vars, bot_vars, life_vars>>

\* mutant: the stake is assigned, not added
exposure_after_assign(market_id, bet_stake, bet_result) ==
    IF Get(bet_result, "success", FALSE)
    THEN (market_id :> bet_stake) @@ race_exposure
    ELSE race_exposure

\* mutant: the success flag is not tested
exposure_after_always(market_id, bet_stake, bet_result) ==
    LET initialised == IF market_id \notin DOMAIN race_exposure
                       THEN race_exposure @@ (market_id :> 0)
                       ELSE race_exposure
    IN  [initialised EXCEPT ![market_id] = @ + bet_stake]

\* the ledger after the exposure update of record_bet
exposure_after(market_id, bet_stake, bet_result) ==
    IF Get(bet_result, "success", FALSE)
    THEN LET initialised == IF market_id \notin DOMAIN race_exposure
                            THEN race_exposure @@ (market_id :> 0)
                            ELSE race_exposure
         IN  [initialised EXCEPT ![market_id] = @ + bet_stake]
    ELSE race_exposure

\* mutant: stake and price are stored in each other's place
bet_record_swapped(market_id, runner_name, selection_id, bet_stake, price, bet_result) ==
    [timestamp |-> now,
     market_id |-> market_id,
     runner_name |-> runner_name,
     selection_id |-> selection_id,
     stake |-> price,
     price |-> bet_stake,
     bet_id |-> Get(bet_result, "bet_id", "N/A"),
     success |-> Get(bet_result, "success", FALSE),
     error |-> Get(bet_result, "error", NoneStr)]

bet_record(market_id, runner_name, selection_id, bet_stake, price, bet_result) ==
    [timestamp |-> now,
     market_id |-> market_id,
     runner_name |-> runner_name,
     selection_id |-> selection_id,
     stake |-> bet_stake,
     price |-> price,
     bet_id |-> Get(bet_result, "bet_id", "N/A"),
     success |-> Get(bet_result, "success", FALSE),
     error |-> Get(bet_result, "error", NoneStr)]

record_bet(market_id, runner_name, selection_id, bet_stake, price, bet_result) ==
    /\ placed_bets' = Append(placed_bets,
           bet_record(market_id, runner_name, selection_id, bet_stake, price, bet_result))
    /\ now' = now + 1
    /\ race_exposure' = exposure_after(market_id, bet_stake, bet_result)

RecordBet ==
    \E m \in MarketIds, s \in Stakes, res \in BetResults :
      \E r \in RunnersOf(m) :
        /\ Len(placed_bets) < MaxBets
        /\ bm_call' = [op |-> "record_bet", market_id |-> m,
                       runner_name |-> r.runner_name, selection_id |-> r.selection_id,
                       stake |-> s, price |-> r.price, bet_result |-> res]
        /\ record_bet(m, r.runner_name, r.selection_id, s, r.price, res)
        /\ bm_ret' = None
        /\ UNCHANGED <<per_race_stop_loss, stake>>
        /\ UNCHANGED calc_vars
        /\ UNCHANGED <<conc_vars, bot_vars, life_vars>>

get_race_exposure(market_id) == Get(race_exposure, market_id, 0)

get_total_exposure == SumValues(race_exposure, DOMAIN race_exposure)

\* the entries of placed_bets whose success flag is b, in order
Filtered(b) == SelectSeq(placed_bets, LAMBDA e : e.success = b)

RECURSIVE SumStakes(_)
SumStakes(bets) ==
    IF bets = <<>> THEN 0 ELSE Head(bets).stake + SumStakes(Tail(bets))

get_bet_count == Len(Filtered(TRUE))

\* mutant: total_staked sums the stakes of all attempts, failed ones too
get_betting_summary_all_stakes ==
    [total_bets |-> Len(Filtered(TRUE)),
     failed_bets |-> Len(Filtered(FALSE)),
     total_staked |-> SumStakes(placed_bets),
     races_bet_on |-> Cardinality(DOMAIN race_exposure),
     total_exposure |-> get_total_exposure]

get_betting_summary ==
    LET successful_bets == Filtered(TRUE)
        failed_bets == Filtered(FALSE)
        total_staked == SumStakes(successful_bets)
    IN  [total_bets |-> Len(successful_bets),
         failed_bets |-> Len(failed_bets),
         total_staked |-> total_staked,
         races_bet_on |-> Cardinality(DOMAIN race_exposure),
         total_exposure |-> get_total_exposure]

\* mutant: a read of a race id creates its ledger entry (setdefault)
Query_setdefault(call, value) ==
    /\ bm_call' = call
    /\ bm_ret' = Some(value)
    /\ race_exposure' = IF "market_id" \in DOMAIN call
                            /\ call.market_id \notin DOMAIN race_exposure
                         THEN race_exposure @@ (call.market_id :> 0)
                         ELSE race_exposure
    /\ UNCHANGED <<per_race_stop_loss, stake, placed_bets, now>>
    /\ UNCHANGED calc_vars
    /\ UNCHANGED <<conc_vars, bot_vars, life_vars>>

\* a call that only reads the ledger
Query(call, value) ==
    /\ bm_call' = call
    /\ bm_ret' = Some(value)
    /\ UNCHANGED <<per_race_stop_loss, stake, race_exposure, placed_bets, now>>
    /\ UNCHANGED calc_vars
    /\ UNCHANGED <<conc_vars, bot_vars, life_vars>>

GetRaceExposure ==
    \E m \in QueryIds :
        Query([op |-> "get_race_exposure", market_id |-> m], get_race_exposure(m))

GetTotalExposure == Query([op |-> "get_total_exposure"], get_total_exposure)

GetBetCount == Query([op |-> "get_bet_count"], get_bet_count)

GetBettingSummary == Query([op |-> "get_betting_summary"], get_betting_summary)

(***************************************************************************)
(* Specifications                                                          *)
(***************************************************************************)
CalcInit ==
    /\ divisor_rules = DivisorRules
    /\ safety_margin = [num |-> 110, den |-> 100]
    /\ fp_mode \in FpModes
    /\ calc_call = None
    /\ calc_local = None
    /\ calc_ret = None

BetManagerInit ==
    /\ per_race_stop_loss \in StopLosses
    /\ stake = 10
    /\ race_exposure = <<>>
    /\ placed_bets = <<>>
    /\ now = 0
    /\ bm_call = NoCall
    /\ bm_ret = None

\* no status request, no bot thread and no BetManager yet
NoInstance == 0
StatsIdle == [app |-> "none", lock |-> "none", pc |-> "idle", ok |-> FALSE, snapshot |-> None]
LifeIdle ==
    /\ stats_io = StatsIdle
    /\ bot_running = FALSE
    /\ bot_instance = NoInstance
    /\ runs = <<>>
    /\ instances = <<>>
    /\ managers = <<>>

\* no concurrent caller, and no bot
IdleThread == [pc |-> "idle", calls |-> 0]
ConcIdle == threads = [t \in {1, 2} |-> IdleThread]
NoBot == [pc |-> "none"]
\* the bot_stats counters at module load (last_bet_time and balance left out)
NoStats == [total_bets |-> 0, total_stake |-> 0, total_exposure |-> 0,
            successful_bets |-> 0, failed_bets |-> 0]
BotIdle ==
    /\ bot = NoBot
    /\ bot_stats = NoStats
    /\ orders = <<>>
    /\ last_eval = None
    /\ last_check = None
    /\ gate_closed = {}

\* the pricing engine alone, called with every input of the input sets
InitCalc ==
    /\ ConcIdle
    /\ LifeIdle
    /\ BotIdle
    /\ CalcInit
    /\ per_race_stop_loss = 20
    /\ stake = 10
    /\ race_exposure = <<>>
    /\ placed_bets = <<>>
    /\ now = 0
    /\ bm_call = NoCall
    /\ bm_ret = None

NextCalc == ShouldBet

SpecCalc == InitCalc /\ [][NextCalc]_vars

\* the exposure tracker alone, driven by arbitrary callers
Init ==
    /\ ConcIdle
    /\ LifeIdle
    /\ BotIdle
    /\ divisor_rules = DivisorRules
    /\ safety_margin = [num |-> 110, den |-> 100]
    /\ fp_mode = [min_above |-> FALSE, tie_up |-> TRUE, edge_up |-> TRUE]
    /\ calc_call = None
    /\ calc_local = None
    /\ calc_ret = None
    /\ BetManagerInit

Next ==
    \/ RecordBet
    \/ CanBetOnRace
    \/ GetRaceExposure
    \/ GetTotalExposure
    \/ GetBetCount
    \/ GetBettingSummary

Spec == Init /\ [][Next]_vars

(***************************************************************************)
(* Two threads calling record_bet on one BetManager                        *)
(* (src/bet_manager.py:43-75).  BetManager holds no lock, so the callers'  *)
(* statements interleave; self.race_exposure[market_id] += stake is a read *)
(* of the entry followed by a write of the sum.                            *)
(***************************************************************************)
Threads == {1, 2}
ThreadAt(t, pc) == threads[t].pc = pc
Goto(t, pc) == threads' = [threads EXCEPT ![t].pc = pc]
ConcFrame ==
    /\ UNCHANGED <<per_race_stop_loss, stake, bm_ret>>
    /\ UNCHANGED calc_vars
    /\ UNCHANGED bot_vars
    /\ UNCHANGED life_vars

\* the call, and the construction of bet_record with its timestamp
ConcCall(t) ==
    \E m \in MarketIds, s \in Stakes, res \in BetResults :
      \E r \in RunnersOf(m) :
        /\ ThreadAt(t, "idle")
        /\ threads[t].calls = 0
        /\ threads' = [threads EXCEPT ![t] =
               [pc |-> "append", calls |-> 1, market_id |-> m, stake |-> s,
                bet_result |-> res, tmp |-> 0,
                bet_record |-> bet_record(m, r.runner_name, r.selection_id, s, r.price, res)]]
        /\ bm_call' = [op |-> "record_bet", market_id |-> m,
                       runner_name |-> r.runner_name, selection_id |-> r.selection_id,
                       stake |-> s, price |-> r.price, bet_result |-> res]
        /\ now' = now + 1
        /\ UNCHANGED <<race_exposure, placed_bets>>
        /\ ConcFrame

\* self.placed_bets.append(bet_record)
ConcAppend(t) ==
    /\ ThreadAt(t, "append")
    /\ placed_bets' = Append(placed_bets, threads[t].bet_record)
    /\ Goto(t, "test_success")
    /\ UNCHANGED <<race_exposure, now, bm_call>>
    /\ ConcFrame

\* if bet_result.get('success'):
ConcTestSuccess(t) ==
    /\ ThreadAt(t, "test_success")
    /\ Goto(t, IF Get(threads[t].bet_result, "success", FALSE) THEN "test_member" ELSE "log")
    /\ UNCHANGED <<race_exposure, placed_bets, now, bm_call>>
    /\ ConcFrame

\* if market_id not in self.race_exposure:
ConcTestMember(t) ==
    /\ ThreadAt(t, "test_member")
    /\ Goto(t, IF threads[t].market_id \notin DOMAIN race_exposure THEN "init" ELSE "load")
    /\ UNCHANGED <<race_exposure, placed_bets, now, bm_call>>
    /\ ConcFrame

\* self.race_exposure[market_id] = 0
ConcInitExposure(t) ==
    /\ ThreadAt(t, "init")
    /\ race_exposure' = (threads[t].market_id :> 0) @@ race_exposure
    /\ Goto(t, "load")
    /\ UNCHANGED <<placed_bets, now, bm_call>>
    /\ ConcFrame

\* the read of self.race_exposure[market_id] += stake
ConcLoad(t) ==
    /\ ThreadAt(t, "load")
    /\ threads' = [threads EXCEPT ![t].pc = "store",
                                  ![t].tmp = race_exposure[threads[t].market_id]]
    /\ UNCHANGED <<race_exposure, placed_bets, now, bm_call>>
    /\ ConcFrame

\* the write of self.race_exposure[market_id] += stake
ConcStore(t) ==
    /\ ThreadAt(t, "store")
    /\ race_exposure' = (threads[t].market_id :> (threads[t].tmp + threads[t].stake))
                            @@ race_exposure
    /\ Goto(t, "log")
    /\ UNCHANGED <<placed_bets, now, bm_call>>
    /\ ConcFrame

\* self.logger.info(...), and the return
ConcReturn(t) ==
    /\ ThreadAt(t, "log")
    /\ Goto(t, "returned")
    /\ UNCHANGED <<race_exposure, placed_bets, now, bm_call>>
    /\ ConcFrame

\* a BetManager that is fresh, or that has recorded one successful bet
ConcInit ==
    /\ ConcIdle
    /\ LifeIdle
    /\ BotIdle
    /\ divisor_rules = DivisorRules
    /\ safety_margin = [num |-> 110, den |-> 100]
    /\ fp_mode = [min_above |-> FALSE, tie_up |-> TRUE, edge_up |-> TRUE]
    /\ calc_call = None
    /\ calc_local = None
    /\ calc_ret = None
    /\ per_race_stop_loss \in StopLosses
    /\ stake = 10
    /\ bm_call = NoCall
    /\ bm_ret = None
    /\ \/ /\ now = 0
          /\ placed_bets = <<>>
          /\ race_exposure = <<>>
       \/ /\ now = 1
          /\ placed_bets = <<[timestamp |-> 0, market_id |-> "1.101",
                              runner_name |-> "Alpha", selection_id |-> 11,
                              stake |-> 20, price |-> 162, bet_id |-> "B1",
                              success |-> TRUE, error |-> NoneStr]>>
          /\ race_exposure = ("1.101" :> 20)

ConcNext ==
    \E t \in Threads :
        \/ ConcCall(t)
        \/ ConcAppend(t)
        \/ ConcTestSuccess(t)
        \/ ConcTestMember(t)
        \/ ConcInitExposure(t)
        \/ ConcLoad(t)
        \/ ConcStore(t)
        \/ ConcReturn(t)

SpecConc == ConcInit /\ [][ConcNext]_vars

(***************************************************************************)
(* BotRunner (src/app.py:100-347; src/app_with_dashboard.py has the same   *)
(* process_race).  One run of one BotRunner after initialize(): run()      *)
(* scans for races, process_race walks the runners of a race, and stop_bot *)
(* clears self.running from another thread at any moment.  The logs, the   *)
(* balance and the sleeps are left out.                                    *)
(***************************************************************************)
\* config['betting']['min_runners'] and ['max_runners']
min_runners == 8
max_runners == 14

RunnerNames == <<"Alpha", "Bravo", "Comet", "Delta", "Ember", "Flint", "Gale", "Haze", "Iris",
                 "Jade", "Kite", "Lark", "Mist", "Nova", "Onyx">>
CatalogueRunners(k, n) ==
    [i \in 1..n |-> [runner_name |-> RunnerNames[i], selection_id |-> 100 * k + i]]
\* the market catalogues get_australian_thoroughbred_races returns: two
\* races inside the runner band, one below it and one above it
Catalogue ==
    <<[market_id |-> "1.101", place_market_id |-> "2.101", runners |-> CatalogueRunners(1, 8)],
      [market_id |-> "1.102", place_market_id |-> "2.102", runners |-> CatalogueRunners(2, 9)],
      [market_id |-> "1.103", place_market_id |-> "2.103", runners |-> CatalogueRunners(3, 7)],
      [market_id |-> "1.104", place_market_id |-> "2.104", runners |-> CatalogueRunners(4, 15)]>>
\* what a scan returns: nothing, or the catalogue
ScanResults == {<<>>, <<1, 2, 3, 4>>}
\* the best win lay price and place back price of runner i, None if the
\* runner or its price is missing
WinQuotes(i) ==
    IF i <= MaxPriced /\ Len(orders) < MaxBets THEN {Some(300)} ELSE {None}
PlaceQuotes(i) ==
    IF i <= MaxPriced /\ Len(orders) < MaxBets THEN {None, Some(128), Some(162)} ELSE {None}
\* what BetfairClient.place_bet returns
PlaceBetResults ==
    {[success |-> TRUE, bet_id |-> "B1"],
     [success |-> FALSE, error |-> "ERR"]}

BotAt(pc) == bot.pc = pc
CurrentRace == Catalogue[bot.races[bot.race_idx]]
CurrentRunner == CurrentRace.runners[bot.runner_idx]
\* the runner iteration the bot is in
Iteration == [market_id |-> bot.market_id, runner_idx |-> bot.runner_idx]

\* BotRunner after __init__ and initialize(), with its fresh BetManager
BotInit ==
    /\ ConcIdle
    /\ LifeIdle
    /\ divisor_rules = DivisorRules
    /\ safety_margin = [num |-> 110, den |-> 100]
    /\ fp_mode = [min_above |-> FALSE, tie_up |-> TRUE, edge_up |-> TRUE]
    /\ calc_call = None
    /\ calc_local = None
    /\ calc_ret = None
    /\ stake = 20
    /\ per_race_stop_loss = 30
    /\ race_exposure = <<>>
    /\ placed_bets = <<>>
    /\ now = 0
    /\ bm_call = NoCall
    /\ bm_ret = None
    /\ bot = [pc |-> "run", running |-> FALSE, processed_races |-> {}, cycles |-> 0,
              races |-> <<>>, race_idx |-> 0, runner_idx |-> 0,
              market_id |-> NoneStr, num_runners |-> 0, place_market_id |-> NoneStr,
              win_lay_price |-> None, place_back_price |-> None,
              bet_result |-> None, bets_placed |-> 0,
              outcome |-> "none", fetch_failed |-> {}]
    /\ bot_stats = NoStats
    /\ orders = <<>>
    /\ last_eval = None
    /\ last_check = None
    /\ gate_closed = {}

\* run(): self.running = True
BotRunStart ==
    /\ BotAt("run")
    /\ bot' = [bot EXCEPT !.running = TRUE, !.pc = "while"]
    /\ UNCHANGED <<bot_stats, orders, last_eval, last_check, gate_closed>>
    /\ UNCHANGED <<calc_vars, bm_vars, conc_vars, life_vars>>

\* while self.running: races = get_australian_thoroughbred_races(); if races:
BotScan ==
    /\ BotAt("while")
    /\ IF ~bot.running
       THEN bot' = [bot EXCEPT !.pc = "stopped"]
       ELSE /\ bot.cycles < MaxCycles
            /\ \E rs \in ScanResults :
                  bot' = [bot EXCEPT !.cycles = @ + 1, !.races = rs, !.race_idx = 1,
                                     !.pc = IF rs = <<>> THEN "wait" ELSE "for_race"]
    /\ UNCHANGED <<bot_stats, orders, last_eval, last_check, gate_closed>>
    /\ UNCHANGED <<calc_vars, bm_vars, conc_vars, life_vars>>

\* for race in races: if not self.running: break; self.process_race(race)
BotNextRace ==
    /\ BotAt("for_race")
    /\ bot' = [bot EXCEPT !.pc = IF bot.race_idx > Len(bot.races) \/ ~bot.running
                                 THEN "wait" ELSE "process_race",
                          !.outcome = "none"]
    /\ UNCHANGED <<bot_stats, orders, last_eval, last_check, gate_closed>>
    /\ UNCHANGED <<calc_vars, bm_vars, conc_vars, life_vars>>

\* mutant: a failed fetch of the win market marks the race processed
BotProcessRace_mark_on_failure ==
    /\ BotAt("process_race")
    /\ LET market_id == CurrentRace.market_id
           num_runners == Len(CurrentRace.runners)
           return == [bot EXCEPT !.race_idx = @ + 1, !.pc = "for_race"]
           processed == [return EXCEPT !.processed_races = @ \cup {market_id}]
           failed == [return EXCEPT !.fetch_failed = @ \cup {market_id}]
       IN  IF market_id \in bot.processed_races
           THEN bot' = [return EXCEPT !.outcome = "already_processed"]
           ELSE IF num_runners < min_runners \/ num_runners > max_runners
           THEN bot' = [processed EXCEPT !.outcome = "out_of_band"]
           ELSE \E win_market, place_id, place_market \in BOOLEAN :
                  IF ~win_market
                  THEN bot' = [failed EXCEPT !.outcome = "no_win_prices",
                                             !.processed_races = @ \cup {market_id}]
                  ELSE IF ~place_id THEN bot' = [processed EXCEPT !.outcome = "no_place_market"]
                  ELSE IF ~place_market THEN bot' = [failed EXCEPT !.outcome = "no_place_prices"]
                  ELSE bot' = [bot EXCEPT !.market_id = market_id,
                                          !.num_runners = num_runners,
                                          !.place_market_id = CurrentRace.place_market_id,
                                          !.bets_placed = 0,
                                          !.runner_idx = 1,
                                          !.outcome = "runners",
                                          !.pc = "for_runner"]
    /\ UNCHANGED <<bot_stats, orders, last_eval, last_check, gate_closed>>
    /\ UNCHANGED <<calc_vars, bm_vars, conc_vars, life_vars>>

\* mutant: only the lower end of the runner band is tested
BotProcessRace_lower_only ==
    /\ BotAt("process_race")
    /\ LET market_id == CurrentRace.market_id
           num_runners == Len(CurrentRace.runners)
           return == [bot EXCEPT !.race_idx = @ + 1, !.pc = "for_race"]
           processed == [return EXCEPT !.processed_races = @ \cup {market_id}]
           failed == [return EXCEPT !.fetch_failed = @ \cup {market_id}]
       IN  IF market_id \in bot.processed_races
           THEN bot' = [return EXCEPT !.outcome = "already_processed"]
           ELSE IF num_runners < min_runners
           THEN bot' = [processed EXCEPT !.outcome = "out_of_band"]
           ELSE \E win_market, place_id, place_market \in BOOLEAN :
                  IF ~win_market THEN bot' = [failed EXCEPT !.outcome = "no_win_prices"]
                  ELSE IF ~place_id THEN bot' = [processed EXCEPT !.outcome = "no_place_market"]
                  ELSE IF ~place_market THEN bot' = [failed EXCEPT !.outcome = "no_place_prices"]
                  ELSE bot' = [bot EXCEPT !.market_id = market_id,
                                          !.num_runners = num_runners,
                                          !.place_market_id = CurrentRace.place_market_id,
                                          !.bets_placed = 0,
                                          !.runner_idx = 1,
                                          !.outcome = "runners",
                                          !.pc = "for_runner"]
    /\ UNCHANGED <<bot_stats, orders, last_eval, last_check, gate_closed>>
    /\ UNCHANGED <<calc_vars, bm_vars, conc_vars, life_vars>>

\* process_race up to the runner loop: the processed test, the runner band
\* and the three market fetches.  outcome names the branch that was taken
\* and fetch_failed collects the races a price fetch has failed for; the
\* code holds neither.
BotProcessRace ==
    /\ BotAt("process_race")
    /\ LET market_id == CurrentRace.market_id
           num_runners == Len(CurrentRace.runners)
           return == [bot EXCEPT !.race_idx = @ + 1, !.pc = "for_race"]
           processed == [return EXCEPT !.processed_races = @ \cup {market_id}]
           failed == [return EXCEPT !.fetch_failed = @ \cup {market_id}]
       IN  IF market_id \in bot.processed_races
           THEN bot' = [return EXCEPT !.outcome = "already_processed"]
           ELSE IF num_runners < min_runners \/ num_runners > max_runners
           THEN bot' = [processed EXCEPT !.outcome = "out_of_band"]
           ELSE \E win_market, place_id, place_market \in BOOLEAN :
                  IF ~win_market THEN bot' = [failed EXCEPT !.outcome = "no_win_prices"]
                  ELSE IF ~place_id THEN bot' = [processed EXCEPT !.outcome = "no_place_market"]
                  ELSE IF ~place_market THEN bot' = [failed EXCEPT !.outcome = "no_place_prices"]
                  ELSE bot' = [bot EXCEPT !.market_id = market_id,
                                          !.num_runners = num_runners,
                                          !.place_market_id = CurrentRace.place_market_id,
                                          !.bets_placed = 0,
                                          !.runner_idx = 1,
                                          !.outcome = "runners",
                                          !.pc = "for_runner"]
    /\ UNCHANGED <<bot_stats, orders, last_eval, last_check, gate_closed>>
    /\ UNCHANGED <<calc_vars, bm_vars, conc_vars, life_vars>>

\* the head of the runner loop, the price lookups and the should_bet call
BotNextRunner ==
    /\ BotAt("for_runner")
    /\ IF bot.runner_idx > bot.num_runners \/ ~bot.running
       THEN /\ bot' = [bot EXCEPT !.pc = "race_end"]
            /\ UNCHANGED <<calc_call, calc_local, calc_ret, last_eval>>
       ELSE \E w \in WinQuotes(bot.runner_idx), p \in PlaceQuotes(bot.runner_idx) :
              IF w = None
              THEN /\ bot' = [bot EXCEPT !.win_lay_price = w, !.runner_idx = @ + 1]
                   /\ UNCHANGED <<calc_call, calc_local, calc_ret, last_eval>>
              ELSE IF p = None
              THEN /\ bot' = [bot EXCEPT !.win_lay_price = w, !.place_back_price = p,
                                         !.runner_idx = @ + 1]
                   /\ UNCHANGED <<calc_call, calc_local, calc_ret, last_eval>>
              ELSE /\ calc_call' = Some([win_lay_price |-> w[1], actual_place_price |-> p[1],
                                         num_runners |-> bot.num_runners])
                   /\ should_bet(w[1], p[1], bot.num_runners)
                   /\ last_eval' = Some(Iteration)
                   /\ IF calc_ret'[1]
                      THEN bot' = [bot EXCEPT !.win_lay_price = w, !.place_back_price = p,
                                              !.pc = "check_stop_loss"]
                      ELSE bot' = [bot EXCEPT !.win_lay_price = w, !.place_back_price = p,
                                              !.runner_idx = @ + 1]
    /\ UNCHANGED <<divisor_rules, safety_margin, fp_mode>>
    /\ UNCHANGED <<bot_stats, orders, last_check, gate_closed>>
    /\ UNCHANGED <<bm_vars, conc_vars, life_vars>>

\* mutant: a check that succeeded for an earlier runner of the race is reused
BotCheckStopLoss_cached ==
    /\ BotAt("check_stop_loss")
    /\ IF last_check # None /\ last_check[1].market_id = bot.market_id /\ bm_ret = None
       THEN /\ bot' = [bot EXCEPT !.pc = "place_bet"]
            /\ UNCHANGED <<bm_call, bm_ret, last_check, gate_closed>>
       ELSE /\ bm_call' = [op |-> "can_bet_on_race", market_id |-> bot.market_id]
            /\ bm_ret' = Some(can_bet_on_race(bot.market_id))
            /\ last_check' = Some(Iteration)
            /\ IF can_bet_on_race(bot.market_id)
               THEN /\ bot' = [bot EXCEPT !.pc = "place_bet"]
                    /\ UNCHANGED gate_closed
               ELSE /\ bot' = [bot EXCEPT !.pc = "race_end"]
                    /\ gate_closed' = gate_closed \cup {bot.market_id}
    /\ UNCHANGED <<per_race_stop_loss, stake, race_exposure, placed_bets, now>>
    /\ UNCHANGED <<bot_stats, orders, last_eval>>
    /\ UNCHANGED <<calc_vars, conc_vars, life_vars>>

\* mutant: a closed gate skips the runner and the loop goes on
BotCheckStopLoss_continue ==
    /\ BotAt("check_stop_loss")
    /\ bm_call' = [op |-> "can_bet_on_race", market_id |-> bot.market_id]
    /\ bm_ret' = Some(can_bet_on_race(bot.market_id))
    /\ last_check' = Some(Iteration)
    /\ IF can_bet_on_race(bot.market_id)
       THEN /\ bot' = [bot EXCEPT !.pc = "place_bet"]
            /\ UNCHANGED gate_closed
       ELSE /\ bot' = [bot EXCEPT !.runner_idx = @ + 1, !.pc = "for_runner"]
            /\ gate_closed' = gate_closed \cup {bot.market_id}
    /\ UNCHANGED <<per_race_stop_loss, stake, race_exposure, placed_bets, now>>
    /\ UNCHANGED <<bot_stats, orders, last_eval>>
    /\ UNCHANGED <<calc_vars, conc_vars, life_vars>>

\* if not self.bet_manager.can_bet_on_race(market_id): break
BotCheckStopLoss ==
    /\ BotAt("check_stop_loss")
    /\ bm_call' = [op |-> "can_bet_on_race", market_id |-> bot.market_id]
    /\ bm_ret' = Some(can_bet_on_race(bot.market_id))
    /\ last_check' = Some(Iteration)
    /\ IF can_bet_on_race(bot.market_id)
       THEN /\ bot' = [bot EXCEPT !.pc = "place_bet"]
            /\ UNCHANGED gate_closed
       ELSE /\ bot' = [bot EXCEPT !.pc = "race_end"]
            /\ gate_closed' = gate_closed \cup {bot.market_id}
    /\ UNCHANGED <<per_race_stop_loss, stake, race_exposure, placed_bets, now>>
    /\ UNCHANGED <<bot_stats, orders, last_eval>>
    /\ UNCHANGED <<calc_vars, conc_vars, life_vars>>

\* mutant: the order is priced at the win lay price
BotPlaceBet_win_price ==
    /\ BotAt("place_bet")
    /\ \E res \in PlaceBetResults :
        /\ orders' = Append(orders,
               [market_id |-> bot.place_market_id,
                selection_id |-> CurrentRunner.selection_id,
                stake |-> stake,
                price |-> bot.win_lay_price[1],
                race |-> bot.market_id,
                result |-> res])
        /\ bot' = [bot EXCEPT !.bet_result = Some(res), !.pc = "record_bet"]
    /\ UNCHANGED <<bot_stats, last_eval, last_check, gate_closed>>
    /\ UNCHANGED <<calc_vars, bm_vars, conc_vars, life_vars>>

\* stake = self.config['betting']['stake']; bet_result = self.client.place_bet(
\*     market_id=place_market_id, selection_id, stake, price=place_back_price)
\* (race is the race being processed: the order itself names its place market)
BotPlaceBet ==
    /\ BotAt("place_bet")
    /\ \E res \in PlaceBetResults :
        /\ orders' = Append(orders,
               [market_id |-> bot.place_market_id,
                selection_id |-> CurrentRunner.selection_id,
                stake |-> stake,
                price |-> bot.place_back_price[1],
                race |-> bot.market_id,
                result |-> res])
        /\ bot' = [bot EXCEPT !.bet_result = Some(res), !.pc = "record_bet"]
    /\ UNCHANGED <<bot_stats, last_eval, last_check, gate_closed>>
    /\ UNCHANGED <<calc_vars, bm_vars, conc_vars, life_vars>>

\* mutant: only an accepted order is reported to the BetManager
BotRecordBet_success_only ==
    /\ BotAt("record_bet")
    /\ IF Get(bot.bet_result[1], "success", FALSE)
       THEN /\ bm_call' = [op |-> "record_bet", market_id |-> bot.market_id,
                           runner_name |-> CurrentRunner.runner_name,
                           selection_id |-> CurrentRunner.selection_id,
                           stake |-> stake, price |-> bot.place_back_price[1],
                           bet_result |-> bot.bet_result[1]]
            /\ record_bet(bot.market_id, CurrentRunner.runner_name,
                          CurrentRunner.selection_id, stake, bot.place_back_price[1],
                          bot.bet_result[1])
            /\ bm_ret' = None
       ELSE UNCHANGED <<bm_call, bm_ret, placed_bets, now, race_exposure>>
    /\ bot' = [bot EXCEPT !.pc = "update_stats"]
    /\ UNCHANGED <<per_race_stop_loss, stake>>
    /\ UNCHANGED <<bot_stats, orders, last_eval, last_check, gate_closed>>
    /\ UNCHANGED <<calc_vars, conc_vars, life_vars>>

\* self.bet_manager.record_bet(market_id, runner_name, selection_id, stake,
\*                             price=place_back_price, bet_result)
BotRecordBet ==
    /\ BotAt("record_bet")
    /\ bm_call' = [op |-> "record_bet", market_id |-> bot.market_id,
                   runner_name |-> CurrentRunner.runner_name,
                   selection_id |-> CurrentRunner.selection_id,
                   stake |-> stake, price |-> bot.place_back_price[1],
                   bet_result |-> bot.bet_result[1]]
    /\ record_bet(bot.market_id, CurrentRunner.runner_name, CurrentRunner.selection_id,
                  stake, bot.place_back_price[1], bot.bet_result[1])
    /\ bm_ret' = None
    /\ bot' = [bot EXCEPT !.pc = "update_stats"]
    /\ UNCHANGED <<per_race_stop_loss, stake>>
    /\ UNCHANGED <<bot_stats, orders, last_eval, last_check, gate_closed>>
    /\ UNCHANGED <<calc_vars, conc_vars, life_vars>>

\* with bot_lock: the bot_stats counters; then the next runner
BotUpdateStats ==
    /\ BotAt("update_stats")
    /\ LET ok == Get(bot.bet_result[1], "success", FALSE)
       IN  /\ bot_stats' = [bot_stats EXCEPT
                   !.successful_bets = IF ok THEN @ + 1 ELSE @,
                   !.failed_bets = IF ok THEN @ ELSE @ + 1,
                   !.total_bets = @ + 1,
                   !.total_stake = @ + stake]
           /\ bot' = [bot EXCEPT !.bets_placed = IF ok THEN @ + 1 ELSE @,
                                 !.runner_idx = @ + 1,
                                 !.pc = "for_runner"]
    /\ UNCHANGED <<orders, last_eval, last_check, gate_closed>>
    /\ UNCHANGED <<calc_vars, bm_vars, conc_vars, life_vars>>

\* mutant: the race is not marked processed after its runner loop
BotRaceEnd_no_mark ==
    /\ BotAt("race_end")
    /\ bot' = [bot EXCEPT !.race_idx = @ + 1, !.outcome = "looped", !.pc = "for_race",
                          !.runner_idx = 0, !.market_id = NoneStr, !.num_runners = 0,
                          !.place_market_id = NoneStr, !.win_lay_price = None,
                          !.place_back_price = None, !.bet_result = None, !.bets_placed = 0]
    /\ UNCHANGED <<bot_stats, orders, last_eval, last_check, gate_closed>>
    /\ UNCHANGED <<calc_vars, bm_vars, conc_vars, life_vars>>

\* the locals of process_race, which its return discards
NoLocals ==
    [runner_idx |-> 0, market_id |-> NoneStr, num_runners |-> 0, place_market_id |-> NoneStr,
     win_lay_price |-> None, place_back_price |-> None, bet_result |-> None, bets_placed |-> 0]
Returned(b) == [f \in DOMAIN b |-> IF f \in DOMAIN NoLocals THEN NoLocals[f] ELSE b[f]]

\* after the runner loop: self.processed_races.add(market_id), and the return
BotRaceEnd ==
    /\ BotAt("race_end")
    /\ bot' = Returned([bot EXCEPT !.processed_races = @ \cup {bot.market_id},
                                   !.race_idx = @ + 1,
                                   !.outcome = "looped",
                                   !.pc = "for_race"])
    /\ UNCHANGED <<bot_stats, orders, last_eval, last_check, gate_closed>>
    /\ UNCHANGED <<calc_vars, bm_vars, conc_vars, life_vars>>

\* the end of a cycle: if self.running: time.sleep(check_interval)
BotWait ==
    /\ BotAt("wait")
    /\ bot' = [bot EXCEPT !.pc = "while"]
    /\ UNCHANGED <<bot_stats, orders, last_eval, last_check, gate_closed>>
    /\ UNCHANGED <<calc_vars, bm_vars, conc_vars, life_vars>>

\* stop_bot, from a request thread: bot_instance.running = False
BotStop ==
    /\ bot.running
    /\ bot' = [bot EXCEPT !.running = FALSE]
    /\ UNCHANGED <<bot_stats, orders, last_eval, last_check, gate_closed>>
    /\ UNCHANGED <<calc_vars, bm_vars, conc_vars, life_vars>>

BotNext ==
    \/ BotRunStart
    \/ BotScan
    \/ BotNextRace
    \/ BotProcessRace
    \/ BotNextRunner
    \/ BotCheckStopLoss
    \/ BotPlaceBet
    \/ BotRecordBet
    \/ BotUpdateStats
    \/ BotRaceEnd
    \/ BotWait
    \/ BotStop

SpecBot == BotInit /\ [][BotNext]_vars

(***************************************************************************)
(* Two threads calling should_bet on one BettingCalculator                 *)
(* (src/calculator.py:61-99).  The intermediate values are locals of the   *)
(* call; self.divisor_rules and self.safety_margin are only read.          *)
(***************************************************************************)
\* the arguments of the concurrent calls
ConcWinLayPrices == {300, 400}
ConcPlacePrices == {162, 166}
ConcRunnerCounts == {7, 8, 9}

CalcConcFrame ==
    /\ UNCHANGED <<fp_mode, calc_call, calc_local, calc_ret>>
    /\ UNCHANGED bm_vars
    /\ UNCHANGED bot_vars
    /\ UNCHANGED life_vars

\* the call
CalcConcCall(t) ==
    \E w \in ConcWinLayPrices, a \in ConcPlacePrices, n \in ConcRunnerCounts :
        /\ ThreadAt(t, "idle")
        /\ threads[t].calls = 0
        /\ threads' = [threads EXCEPT ![t] =
               [pc |-> "fair", calls |-> 1,
                call |-> [win_lay_price |-> w, actual_place_price |-> a, num_runners |-> n],
                place_fair |-> None, place_min |-> None, should_place_bet |-> None,
                ret |-> None]]
        /\ UNCHANGED <<divisor_rules, safety_margin>>
        /\ CalcConcFrame

\* place_fair = self.calculate_fair_place_odds(...); if place_fair is None: return
CalcConcFair(t) ==
    /\ ThreadAt(t, "fair")
    /\ LET c == threads[t].call
           place_fair == calculate_fair_place_odds(Px(c.win_lay_price), c.num_runners)
       IN  threads' = [threads EXCEPT ![t] =
               IF place_fair = None
               THEN [@ EXCEPT !.pc = "returned",
                              !.ret = Some(<<FALSE, [error |-> "does not qualify",
                                                     num_runners |-> c.num_runners]>>)]
               ELSE [@ EXCEPT !.pc = "min", !.place_fair = place_fair]]
    /\ UNCHANGED <<divisor_rules, safety_margin>>
    /\ CalcConcFrame

\* mutant: the margin is kept on the calculator and compounds with each call
CalcConcMin_compounding(t) ==
    /\ ThreadAt(t, "min")
    /\ threads' = [threads EXCEPT ![t].pc = "decide",
           ![t].place_min = Some(calculate_minimum_place_odds(threads[t].place_fair[1]))]
    /\ safety_margin' = [safety_margin EXCEPT !.num = @ + 10]
    /\ UNCHANGED divisor_rules
    /\ CalcConcFrame

\* place_min = self.calculate_minimum_place_odds(place_fair)
CalcConcMin(t) ==
    /\ ThreadAt(t, "min")
    /\ threads' = [threads EXCEPT ![t].pc = "decide",
           ![t].place_min = Some(calculate_minimum_place_odds(threads[t].place_fair[1]))]
    /\ UNCHANGED <<divisor_rules, safety_margin>>
    /\ CalcConcFrame

\* should_place_bet = actual_place_price >= place_min
CalcConcDecide(t) ==
    /\ ThreadAt(t, "decide")
    /\ threads' = [threads EXCEPT ![t].pc = "details",
           ![t].should_place_bet =
               Some(should_place_bet(Px(threads[t].call.actual_place_price),
                                     threads[t].place_min[1], fp_mode.min_above))]
    /\ UNCHANGED <<divisor_rules, safety_margin>>
    /\ CalcConcFrame

\* details = {...}; return should_place_bet, details
CalcConcDetails(t) ==
    /\ ThreadAt(t, "details")
    /\ LET c == threads[t].call
           place_fair == threads[t].place_fair[1]
           place_min == threads[t].place_min[1]
           sb == threads[t].should_place_bet[1]
       IN  threads' = [threads EXCEPT ![t].pc = "returned",
               ![t].ret = Some(<<sb,
                   [win_lay_price |-> c.win_lay_price,
                    num_runners |-> c.num_runners,
                    divisor |-> get_divisor(c.num_runners)[1],
                    place_fair |-> Round2(place_fair, fp_mode.tie_up),
                    place_min |-> Round2(place_min, fp_mode.tie_up),
                    actual_place_price |-> c.actual_place_price,
                    should_bet |-> sb,
                    edge |-> edge_of(Px(c.actual_place_price), place_min, sb,
                                     fp_mode.edge_up)]>>)]
    /\ UNCHANGED <<divisor_rules, safety_margin>>
    /\ CalcConcFrame

CalcConcInit ==
    /\ ConcIdle
    /\ LifeIdle
    /\ BotIdle
    /\ CalcInit
    /\ per_race_stop_loss = 20
    /\ stake = 10
    /\ race_exposure = <<>>
    /\ placed_bets = <<>>
    /\ now = 0
    /\ bm_call = NoCall
    /\ bm_ret = None

CalcConcNext ==
    \E t \in Threads :
        \/ CalcConcCall(t)
        \/ CalcConcFair(t)
        \/ CalcConcMin(t)
        \/ CalcConcDecide(t)
        \/ CalcConcDetails(t)

SpecCalcConc == CalcConcInit /\ [][CalcConcNext]_vars

(***************************************************************************)
(* The statistics counters: the bot thread's update after a bet, and the   *)
(* requests that read or reset them from request threads.  src/app.py      *)
(* takes bot_lock around the update (278-292), the copy of get_status      *)
(* (405-407) and reset_stats (551-562); src/app_with_dashboard.py updates  *)
(* (207-219) and reads (315) the dictionary with no lock and has no reset. *)
(* stats_io.app names the program that runs.                               *)
(***************************************************************************)
Apps == {"app.py", "app_with_dashboard.py"}
Locked == stats_io.app = "app.py"
LockFree == Locked => stats_io.lock = "none"
StatsFrame ==
    /\ UNCHANGED <<calc_vars, bm_vars, conc_vars>>
    /\ UNCHANGED <<bot, orders, last_eval, last_check, gate_closed>>
    /\ UNCHANGED <<bot_running, bot_instance, runs, instances, managers>>

\* the bot thread comes to the update with its bet_result; app.py enters
\* 'with bot_lock:'
StatsBeginUpdate ==
    /\ stats_io.pc = "idle"
    /\ bot_stats.total_bets < MaxBets
    /\ LockFree
    /\ \E ok \in BOOLEAN :
          stats_io' = [stats_io EXCEPT !.pc = "result", !.ok = ok,
                                       !.lock = IF Locked THEN "bot" ELSE @]
    /\ UNCHANGED bot_stats
    /\ StatsFrame

\* bot_stats['successful_bets'] += 1, or bot_stats['failed_bets'] += 1
StatsResult ==
    /\ stats_io.pc = "result"
    /\ bot_stats' = IF stats_io.ok
                    THEN [bot_stats EXCEPT !.successful_bets = @ + 1]
                    ELSE [bot_stats EXCEPT !.failed_bets = @ + 1]
    /\ stats_io' = [stats_io EXCEPT !.pc = "total_bets"]
    /\ StatsFrame

\* bot_stats['total_bets'] += 1
StatsTotalBets ==
    /\ stats_io.pc = "total_bets"
    /\ bot_stats' = [bot_stats EXCEPT !.total_bets = @ + 1]
    /\ stats_io' = [stats_io EXCEPT !.pc = "total_stake"]
    /\ StatsFrame

\* bot_stats['total_stake'] += stake, and the end of the update; app.py
\* leaves 'with bot_lock:'
StatsTotalStake ==
    /\ stats_io.pc = "total_stake"
    /\ bot_stats' = [bot_stats EXCEPT !.total_stake = @ + stake]
    /\ stats_io' = [stats_io EXCEPT !.pc = "idle", !.lock = "none"]
    /\ StatsFrame

\* get_status: the statistics it returns (app.py: a copy taken under bot_lock)
GetStatus ==
    /\ LockFree
    /\ stats_io' = [stats_io EXCEPT !.snapshot = Some(bot_stats)]
    /\ UNCHANGED bot_stats
    /\ StatsFrame

\* reset_stats (app.py only): the counters are replaced under bot_lock
ResetStats ==
    /\ Locked
    /\ LockFree
    /\ bot_stats' = NoStats
    /\ UNCHANGED stats_io
    /\ StatsFrame

StatsInit ==
    /\ ConcIdle
    /\ BotIdle
    /\ stats_io \in {[StatsIdle EXCEPT !.app = a] : a \in Apps}
    /\ bot_running = FALSE
    /\ bot_instance = NoInstance
    /\ runs = <<>>
    /\ instances = <<>>
    /\ managers = <<>>
    /\ divisor_rules = DivisorRules
    /\ safety_margin = [num |-> 110, den |-> 100]
    /\ fp_mode = [min_above |-> FALSE, tie_up |-> TRUE, edge_up |-> TRUE]
    /\ calc_call = None
    /\ calc_local = None
    /\ calc_ret = None
    /\ per_race_stop_loss = 20
    /\ stake = 10
    /\ race_exposure = <<>>
    /\ placed_bets = <<>>
    /\ now = 0
    /\ bm_call = NoCall
    /\ bm_ret = None

StatsNext ==
    \/ StatsBeginUpdate
    \/ StatsResult
    \/ StatsTotalBets
    \/ StatsTotalStake
    \/ GetStatus
    \/ ResetStats

SpecStats == StatsInit /\ [][StatsNext]_vars

(***************************************************************************)
(* The life of the bot threads (src/app.py:353-375, 423-469, 311-347;      *)
(* src/app_with_dashboard.py has the same functions).  start_bot starts a  *)
(* thread on run_bot_thread; the thread stores a new BotRunner in the      *)
(* global bot_instance and then calls initialize() and run() on whatever   *)
(* bot_instance holds at that moment; stop_bot clears bot_running and the  *)
(* running flag of the object bot_instance holds.  Every scan lists one    *)
(* race; only its runners with prices are walked, and the pricing decision *)
(* is left open (SpecBot has the runner loop in full).                     *)
(***************************************************************************)
LifeRace == Catalogue[1]
NewThread == [pc |-> "thread", self |-> NoInstance, cycles |-> 0, race_idx |-> 0,
              runner_idx |-> 0, cancelled |-> FALSE]
\* BotRunner.__init__
NewBotRunner == [running |-> FALSE, bet_manager |-> 0, processed_races |-> {}]
\* BetManager.__init__; users collects the threads that have called it
NewBetManager == [race_exposure |-> <<>>, placed_bets |-> <<>>, users |-> {}]
ThreadIds == 1..Len(runs)
Self(t) == instances[runs[t].self]
ManagerOf(t) == managers[Self(t).bet_manager]
LifeFrame ==
    /\ UNCHANGED <<calc_vars, bm_vars, conc_vars>>
    /\ UNCHANGED <<bot, last_eval, last_check, gate_closed, stats_io>>

\* start_bot: refused while bot_running; else bot_running = True and a
\* thread is started
StartBot ==
    /\ ~bot_running
    /\ Len(runs) < MaxRuns
    /\ bot_running' = TRUE
    /\ runs' = Append(runs, NewThread)
    /\ UNCHANGED <<bot_instance, instances, managers, orders, bot_stats>>
    /\ LifeFrame

\* stop_bot: refused unless bot_running; else bot_running = False and, if
\* bot_instance holds an object, its running flag is cleared.  The thread
\* of the last accepted start_bot is the run this cancels.
StopBot ==
    /\ bot_running
    /\ bot_running' = FALSE
    /\ instances' = IF bot_instance # NoInstance
                    THEN [instances EXCEPT ![bot_instance].running = FALSE]
                    ELSE instances
    /\ runs' = [runs EXCEPT ![Len(runs)].cancelled = TRUE]
    /\ UNCHANGED <<bot_instance, managers, orders, bot_stats>>
    /\ LifeFrame

\* run_bot_thread: bot_instance = BotRunner(config)
LifeCreate(t) ==
    /\ runs[t].pc = "thread"
    /\ instances' = Append(instances, NewBotRunner)
    /\ bot_instance' = Len(instances) + 1
    /\ runs' = [runs EXCEPT ![t].pc = "initialize"]
    /\ UNCHANGED <<bot_running, managers, orders, bot_stats>>
    /\ LifeFrame

\* if bot_instance.initialize(): the object bot_instance holds now connects
\* and gets a new BetManager; else: bot_running = False and the thread ends
LifeInitialize(t) ==
    /\ runs[t].pc = "initialize"
    /\ \/ /\ managers' = Append(managers, NewBetManager)
          /\ instances' = [instances EXCEPT ![bot_instance].bet_manager = Len(managers) + 1]
          /\ runs' = [runs EXCEPT ![t].pc = "run"]
          /\ UNCHANGED bot_running
       \/ /\ bot_running' = FALSE
          /\ runs' = [runs EXCEPT ![t].pc = "exited"]
          /\ UNCHANGED <<instances, managers>>
    /\ UNCHANGED <<bot_instance, orders, bot_stats>>
    /\ LifeFrame

\* bot_instance.run(): self is the object bot_instance holds now;
\* self.running = True
LifeRunStart(t) ==
    /\ runs[t].pc = "run"
    /\ runs' = [runs EXCEPT ![t].pc = "while", ![t].self = bot_instance]
    /\ instances' = [instances EXCEPT ![bot_instance].running = TRUE]
    /\ UNCHANGED <<bot_running, bot_instance, managers, orders, bot_stats>>
    /\ LifeFrame

\* while self.running: races = self.client.get_australian_thoroughbred_races()
\* (on an object that is not initialized the call raises, and the loop
\* sleeps and tries again: no step)
LifeScan(t) ==
    /\ runs[t].pc = "while"
    /\ IF ~Self(t).running
       THEN runs' = [runs EXCEPT ![t].pc = "exited"]
       ELSE /\ Self(t).bet_manager # 0
            /\ runs[t].cycles < MaxCycles
            /\ runs' = [runs EXCEPT ![t].cycles = @ + 1, ![t].race_idx = 1,
                                    ![t].pc = "for_race"]
    /\ UNCHANGED <<bot_running, bot_instance, instances, managers, orders, bot_stats>>
    /\ LifeFrame

\* for race in races: if not self.running: break; process_race(race) up to
\* its runner loop
LifeNextRace(t) ==
    /\ runs[t].pc = "for_race"
    /\ IF runs[t].race_idx > 1 \/ ~Self(t).running
       THEN /\ runs' = [runs EXCEPT ![t].pc = "while"]
            /\ UNCHANGED instances
       ELSE IF LifeRace.market_id \in Self(t).processed_races
       THEN /\ runs' = [runs EXCEPT ![t].race_idx = @ + 1]
            /\ UNCHANGED instances
       ELSE /\ runs' = [runs EXCEPT ![t].runner_idx = 1, ![t].pc = "for_runner"]
            /\ UNCHANGED instances
    /\ UNCHANGED <<bot_running, bot_instance, managers, orders, bot_stats>>
    /\ LifeFrame

\* for runner_cat in runners: if not self.running: break; prices, should_bet,
\* can_bet_on_race; after the loop processed_races.add(market_id)
LifeNextRunner(t) ==
    /\ runs[t].pc = "for_runner"
    /\ LET leave ==
               /\ runs' = [runs EXCEPT ![t].race_idx = @ + 1, ![t].pc = "for_race"]
               /\ instances' = [instances EXCEPT
                      ![runs[t].self].processed_races = @ \cup {LifeRace.market_id}]
       IN  IF runs[t].runner_idx > MaxPriced \/ ~Self(t).running
           THEN leave /\ UNCHANGED managers
           ELSE \/ /\ runs' = [runs EXCEPT ![t].runner_idx = @ + 1]
                   /\ UNCHANGED <<instances, managers>>
                \/ /\ Len(orders) < MaxBets
                   /\ managers' = [managers EXCEPT
                          ![Self(t).bet_manager].users = @ \cup {t}]
                   /\ IF Get(ManagerOf(t).race_exposure, LifeRace.market_id, 0)
                             >= per_race_stop_loss
                      THEN leave
                      ELSE /\ runs' = [runs EXCEPT ![t].pc = "place_bet"]
                           /\ UNCHANGED instances
    /\ UNCHANGED <<bot_running, bot_instance, orders, bot_stats>>
    /\ LifeFrame

\* place_bet, record_bet on self.bet_manager, and the statistics; the
\* exchange accepts every order here (SpecBot has the refusals)
LifeBet(t) ==
    /\ runs[t].pc = "place_bet"
    /\ \E res \in {r \in PlaceBetResults : r.success} :
         LET runner == LifeRace.runners[runs[t].runner_idx]
             m == LifeRace.market_id
             bm == ManagerOf(t)
             exposure == IF res.success
                         THEN (m :> (Get(bm.race_exposure, m, 0) + stake))
                                  @@ bm.race_exposure
                         ELSE bm.race_exposure
         IN  /\ orders' = Append(orders,
                    [market_id |-> LifeRace.place_market_id,
                     selection_id |-> runner.selection_id,
                     stake |-> stake, price |-> 162, race |-> m,
                     result |-> res, thread |-> t])
             /\ managers' = [managers EXCEPT ![Self(t).bet_manager] =
                    [race_exposure |-> exposure,
                     placed_bets |-> Append(bm.placed_bets,
                         [market_id |-> m, selection_id |-> runner.selection_id,
                          stake |-> stake, success |-> res.success]),
                     users |-> bm.users \cup {t}]]
             /\ bot_stats' = [bot_stats EXCEPT
                    !.successful_bets = IF res.success THEN @ + 1 ELSE @,
                    !.failed_bets = IF res.success THEN @ ELSE @ + 1,
                    !.total_bets = @ + 1,
                    !.total_stake = @ + stake]
    /\ runs' = [runs EXCEPT ![t].runner_idx = @ + 1, ![t].pc = "for_runner"]
    /\ UNCHANGED <<bot_running, bot_instance, instances>>
    /\ LifeFrame

\* the web application after load: no thread, bot_instance = None
LifeInit ==
    /\ ConcIdle
    /\ BotIdle
    /\ stats_io = StatsIdle
    /\ bot_running = FALSE
    /\ bot_instance = NoInstance
    /\ runs = <<>>
    /\ instances = <<>>
    /\ managers = <<>>
    /\ divisor_rules = DivisorRules
    /\ safety_margin = [num |-> 110, den |-> 100]
    /\ fp_mode = [min_above |-> FALSE, tie_up |-> TRUE, edge_up |-> TRUE]
    /\ calc_call = None
    /\ calc_local = None
    /\ calc_ret = None
    /\ per_race_stop_loss = 30
    /\ stake = 20
    /\ race_exposure = <<>>
    /\ placed_bets = <<>>
    /\ now = 0
    /\ bm_call = NoCall
    /\ bm_ret = None

LifeNext ==
    \/ StartBot
    \/ StopBot
    \/ \E t \in ThreadIds :
          \/ LifeCreate(t)
          \/ LifeInitialize(t)
          \/ LifeRunStart(t)
          \/ LifeScan(t)
          \/ LifeNextRace(t)
          \/ LifeNextRunner(t)
          \/ LifeBet(t)

SpecLife == LifeInit /\ [][LifeNext]_vars

(***************************************************************************)
(* Claims about the pricing engine (checked under SpecCalc)                *)
(***************************************************************************)
\* the divisor of the fixed table of the design, for a runner count in 8..14
RefDivisor(n) == IF n = 8 THEN 5 ELSE 4
Qualifies(n) == n \in 8..14
\* the sign of this number is the sign of actual - minimum in exact arithmetic:
\* a/100 - (1 + 1.10 * (w/100 - 1) / d) = MinGap(w, a, d) / (1000 * d)
MinGap(w, a, d) == 10 * d * (a - 100) - 11 * (w - 100)
Called == calc_call # None
Abs(x) == IF x < 0 THEN -x ELSE x

\* C1: the decision is favorable iff the runner count has a divisor and the
\* actual place price is >= the unrounded minimum place price (where both are
\* equal in exact arithmetic, >= on the binary64 values); an actual price
\* below the exact minimum is never favorable, also when it is >= the
\* rounded minimum of the details.
C1_FavorableIffAtLeastUnroundedMin ==
    Called =>
        LET c == calc_call[1]
            gap == MinGap(c.win_lay_price, c.actual_place_price, RefDivisor(c.num_runners))
            favorable == calc_ret[1]
        IN  /\ favorable <=>
                 /\ Qualifies(c.num_runners)
                 /\ (gap > 0 \/ (gap = 0 /\ ~fp_mode.min_above))
            /\ (Qualifies(c.num_runners) /\ gap < 0
                  /\ c.actual_place_price >= calc_ret[2].place_min) => ~favorable

\* C1 witness: 12 runners, win 1.12, place 1.03: the minimum is 1.033, shown
\* as 1.03, and the decision is not favorable
C1_Witness ==
    /\ Called
    /\ calc_call[1] = [win_lay_price |-> 112, actual_place_price |-> 103, num_runners |-> 12]
    /\ calc_ret[1] = FALSE
    /\ calc_ret[2].place_min = 103

\* C2: for a runner count with a divisor, fair = ((win - 1) / divisor) + 1
\* and minimum = 1 + 1.10 * (fair - 1), in exact arithmetic (cross-multiplied)
C2_FairAndMinimumFormulas ==
    Called =>
        LET c == calc_call[1]
            d == RefDivisor(c.num_runners)
        IN  Qualifies(c.num_runners) =>
                /\ calc_local # None
                /\ d * (calc_local[1].place_fair - ONE) = Px(c.win_lay_price) - ONE
                /\ 100 * (calc_local[1].place_min - ONE)
                       = 110 * (calc_local[1].place_fair - ONE)

\* C2 witness: 8 runners, win 4.0: fair 1.6, minimum 1.66
C2_Witness ==
    /\ Called
    /\ calc_call[1].num_runners = 8
    /\ calc_call[1].win_lay_price = 400
    /\ calc_local = Some([place_fair |-> Px(160), place_min |-> Px(166)])

\* C3: the divisor is 5 for 8 runners, 4 for 9..14 runners and absent for
\* every other count; with no divisor the decision is a normal return of
\* favorable = false with no divisor, fair or minimum price.
C3_DivisorTable ==
    /\ \A n \in 0..MaxRunners :
           get_divisor(n) = (IF n = 8 THEN Some(5)
                             ELSE IF n \in 9..14 THEN Some(4) ELSE None)
    /\ Called =>
           LET n == calc_call[1].num_runners
           IN  IF n \in 8..14
               THEN calc_ret[2].divisor = (IF n = 8 THEN 5 ELSE 4)
               ELSE /\ Len(calc_ret) = 2
                    /\ calc_ret[1] = FALSE
                    /\ calc_local = None
                    /\ DOMAIN calc_ret[2] \cap
                         {"divisor", "place_fair", "place_min", "edge"} = {}

\* C3 witness: a call with 7 runners returned not favorable, with no prices
C3_Witness ==
    /\ Called
    /\ calc_call[1].num_runners = 7
    /\ calc_ret[1] = FALSE
    /\ DOMAIN calc_ret[2] = {"error", "num_runners"}

\* C4: 10 runners and win 3.0 give divisor 4, fair 1.50 and minimum 1.55;
\* place 1.62 is favorable with edge 0.07, place 1.50 is not, with edge 0.
C4_WorkedExample ==
    (Called /\ calc_call[1].num_runners = 10 /\ calc_call[1].win_lay_price = 300) =>
        LET a == calc_call[1].actual_place_price
            details == calc_ret[2]
        IN  /\ details.divisor = 4
            /\ details.place_fair = 150
            /\ details.place_min = 155
            /\ a = 162 => (calc_ret[1] /\ details.should_bet /\ details.edge = 7)
            /\ a = 150 => (~calc_ret[1] /\ ~details.should_bet /\ details.edge = 0)

\* C4 witness: the call of the self-test, should_bet(3.0, 1.62, 10)
C4_Witness ==
    /\ Called
    /\ calc_call[1] = [win_lay_price |-> 300, actual_place_price |-> 162, num_runners |-> 10]
    /\ calc_ret[1] = TRUE
    /\ calc_ret[2].edge = 7

C6_Monotonic ==
    [][(/\ Called
        /\ calc_call' # None
        /\ calc_call'[1].num_runners = calc_call[1].num_runners
        /\ calc_call'[1].win_lay_price = calc_call[1].win_lay_price
        /\ calc_call[1].actual_place_price <= calc_call'[1].actual_place_price
        /\ calc_ret[1])
       => calc_ret'[1]]_vars

\* C6 witness: 9 runners, win 2.0 (minimum 1.275): place 1.28 is favorable
C6_Witness ==
    /\ Called
    /\ calc_call[1] = [win_lay_price |-> 200, actual_place_price |-> 128, num_runners |-> 9]
    /\ calc_ret[1] = TRUE

\* an evaluation that raised the error kind instead of returning
Raised(ret, kind) == Len(ret) = 1 /\ ret[1] = kind

\* C7: an evaluation with a win or place price <= 1.0 or a runner count <= 0
\* fails with InvalidInput instead of returning a decision.
C7_InvalidInputRaises ==
    (/\ Called
     /\ \/ calc_call[1].win_lay_price <= 100
        \/ calc_call[1].actual_place_price <= 100
        \/ calc_call[1].num_runners <= 0)
    => Raised(calc_ret, "InvalidInput")

(***************************************************************************)
(* Claims about the exposure tracker (checked under Spec)                  *)
(***************************************************************************)
\* the accumulated exposure of a race in ledger d, 0 if unseen
ExposureIn(d, m) == IF m \in DOMAIN d THEN d[m] ELSE 0
RecordBetStep == bm_call'.op = "record_bet" /\ Len(placed_bets') = Len(placed_bets) + 1
Succeeded(res) == "success" \in DOMAIN res /\ res.success = TRUE

\* C8: can_bet_on_race is true iff the race's exposure (0 if unseen) is
\* strictly below per_race_stop_loss, for every race id and for the value
\* the last call returned.
C8_CanBetIffBelowStopLoss ==
    /\ \A m \in QueryIds :
           can_bet_on_race(m) <=> (ExposureIn(race_exposure, m) < per_race_stop_loss)
    /\ bm_call.op = "can_bet_on_race" =>
           (bm_ret[1] <=>
              (ExposureIn(race_exposure, bm_call.market_id) < per_race_stop_loss))

\* C8 witness: a call for a race whose exposure equals the stop-loss
\* returned false
C8_Witness ==
    /\ bm_call.op = "can_bet_on_race"
    /\ bm_call.market_id \in DOMAIN race_exposure
    /\ race_exposure[bm_call.market_id] = per_race_stop_loss
    /\ bm_ret = Some(FALSE)

\* C9: a successful record_bet adds exactly the stake to the exposure of
\* exactly that race (from 0 if unseen) and changes no other race.
C9_SuccessAddsStake ==
    [][(RecordBetStep /\ Succeeded(bm_call'.bet_result)) =>
           /\ ExposureIn(race_exposure', bm_call'.market_id)
                  = ExposureIn(race_exposure, bm_call'.market_id) + bm_call'.stake
           /\ bm_call'.market_id \in DOMAIN race_exposure'
           /\ \A o \in QueryIds \ {bm_call'.market_id} :
                  /\ (o \in DOMAIN race_exposure') <=> (o \in DOMAIN race_exposure)
                  /\ ExposureIn(race_exposure', o) = ExposureIn(race_exposure, o)]_vars

\* C9 witness: a successful record of stake 20 on a race that stood at 10,
\* with another race at 20
C9_Witness ==
    /\ bm_call.op = "record_bet"
    /\ Succeeded(bm_call.bet_result)
    /\ bm_call.market_id = "1.101"
    /\ bm_call.stake = 20
    /\ race_exposure = ("1.101" :> 30) @@ ("1.102" :> 20)

\* no entry of the history is a successful bet on race m
NoSuccessOn(m) ==
    \A i \in 1..Len(placed_bets) :
        placed_bets[i].market_id = m => placed_bets[i].success = FALSE

\* C10: a failed record_bet (success false or absent) leaves every exposure
\* unchanged and appends an entry with success = false and the supplied
\* error; a race with failed records only has exposure 0 and may be bet on.
C10_FailureLeavesExposure ==
    /\ [][(RecordBetStep /\ ~Succeeded(bm_call'.bet_result)) =>
              /\ race_exposure' = race_exposure
              /\ SubSeq(placed_bets', 1, Len(placed_bets)) = placed_bets
              /\ placed_bets'[Len(placed_bets')].success = FALSE
              /\ placed_bets'[Len(placed_bets')].market_id = bm_call'.market_id
              /\ placed_bets'[Len(placed_bets')].error
                     = (IF "error" \in DOMAIN bm_call'.bet_result
                        THEN bm_call'.bet_result.error ELSE NoneStr)]_vars
    /\ [](\A m \in QueryIds :
              NoSuccessOn(m) =>
                  /\ ExposureIn(race_exposure, m) = 0
                  /\ can_bet_on_race(m))

\* C10 witness: three failed records on one race, then can_bet_on_race true
C10_Witness ==
    /\ Len(placed_bets) = 3
    /\ \A i \in 1..3 : placed_bets[i].market_id = "1.101" /\ ~placed_bets[i].success
    /\ bm_call = [op |-> "can_bet_on_race", market_id |-> "1.101"]
    /\ bm_ret = Some(TRUE)
    /\ race_exposure = <<>>

\* C11: the accumulated exposure of a race never decreases from one state to
\* the next.
C11_ExposureNeverDecreases ==
    [][\A m \in QueryIds :
           ExposureIn(race_exposure', m) >= ExposureIn(race_exposure, m)]_vars

\* C11 witness: a race that grew twice, from 0 to 20 and from 20 to 30
C11_Witness ==
    /\ Len(placed_bets) = 2
    /\ placed_bets[1].stake = 20 /\ placed_bets[1].success
    /\ placed_bets[2].stake = 10 /\ placed_bets[2].success
    /\ race_exposure = ("1.102" :> 30)

\* the value dict.get gives for a key of a place_bet result
ResultField(res, key, default) == IF key \in DOMAIN res THEN res[key] ELSE default

\* C12: every record_bet call appends exactly one entry with the call's race
\* id, runner name, selection id, stake, price, success flag, error detail
\* and bet id; no step removes, reorders or changes an earlier entry.
C12_HistoryAppendOnly ==
    [][/\ Len(placed_bets') >= Len(placed_bets)
       /\ SubSeq(placed_bets', 1, Len(placed_bets)) = placed_bets
       /\ bm_call'.op = "record_bet" =>
              LET c == bm_call'
                  e == placed_bets'[Len(placed_bets')]
              IN  /\ Len(placed_bets') = Len(placed_bets) + 1
                  /\ e.market_id = c.market_id
                  /\ e.runner_name = c.runner_name
                  /\ e.selection_id = c.selection_id
                  /\ e.stake = c.stake
                  /\ e.price = c.price
                  /\ e.success = ResultField(c.bet_result, "success", FALSE)
                  /\ e.error = ResultField(c.bet_result, "error", NoneStr)
                  /\ e.bet_id = ResultField(c.bet_result, "bet_id", "N/A")
       /\ bm_call'.op # "record_bet" => placed_bets' = placed_bets]_vars

\* C12 witness: a failed record appended after a successful one
C12_Witness ==
    /\ bm_call.op = "record_bet"
    /\ Len(placed_bets) = 2
    /\ placed_bets[1].success /\ placed_bets[1].bet_id = "B1"
    /\ ~placed_bets[2].success /\ placed_bets[2].error = "ERR"
    /\ placed_bets[2].bet_id = "N/A"

\* the stakes of the successful entries of the history for race m, summed
\* over the entries 1..n
RECURSIVE SuccessStake(_, _)
SuccessStake(m, n) ==
    IF n = 0 THEN 0
    ELSE SuccessStake(m, n - 1)
         + (IF placed_bets[n].market_id = m /\ placed_bets[n].success
            THEN placed_bets[n].stake ELSE 0)
\* the successful stakes on race m, in order
SuccessStakesOn(m) ==
    LET on == SelectSeq(placed_bets, LAMBDA e : e.market_id = m /\ e.success)
    IN  [i \in 1..Len(on) |-> on[i].stake]

\* C13: with a stop-loss of 30, one successful bet of 20 on a race gives
\* exposure 20 and can_bet_on_race true, a second one gives exposure 40 and
\* false; can_bet_on_race is false as soon as the cumulative successful stake
\* on the race is >= per_race_stop_loss.
C13_StopLossScenario ==
    \A m \in MarketIds :
        /\ (per_race_stop_loss = 30 /\ SuccessStakesOn(m) = <<20>>) =>
               (ExposureIn(race_exposure, m) = 20 /\ can_bet_on_race(m))
        /\ (per_race_stop_loss = 30 /\ SuccessStakesOn(m) = <<20, 20>>) =>
               (ExposureIn(race_exposure, m) = 40 /\ ~can_bet_on_race(m))
        /\ SuccessStake(m, Len(placed_bets)) >= per_race_stop_loss
               => ~can_bet_on_race(m)
        /\ bm_call = [op |-> "can_bet_on_race", market_id |-> m] =>
               (bm_ret[1] <=> SuccessStake(m, Len(placed_bets)) < per_race_stop_loss)

\* C13 witness: stop-loss 30, two successful bets of 20 on one race, and
\* can_bet_on_race returned false
C13_Witness ==
    /\ per_race_stop_loss = 30
    /\ SuccessStakesOn("1.101") = <<20, 20>>
    /\ race_exposure = ("1.101" :> 40)
    /\ bm_call = [op |-> "can_bet_on_race", market_id |-> "1.101"]
    /\ bm_ret = Some(FALSE)

\* the indices of the history entries whose success flag is b
EntriesWith(b) == {i \in 1..Len(placed_bets) : placed_bets[i].success = b}
RECURSIVE StakeOver(_)
StakeOver(idx) ==
    IF idx = {} THEN 0
    ELSE LET i == CHOOSE x \in idx : TRUE
         IN  placed_bets[i].stake + StakeOver(idx \ {i})
RECURSIVE ExposureOver(_)
ExposureOver(ids) ==
    IF ids = {} THEN 0
    ELSE LET m == CHOOSE x \in ids : TRUE
         IN  ExposureIn(race_exposure, m) + ExposureOver(ids \ {m})
SummaryFromHistory ==
    [total_bets |-> Cardinality(EntriesWith(TRUE)),
     failed_bets |-> Cardinality(EntriesWith(FALSE)),
     total_staked |-> StakeOver(EntriesWith(TRUE)),
     races_bet_on |-> Cardinality({m \in QueryIds : m \in DOMAIN race_exposure}),
     total_exposure |-> ExposureOver(QueryIds)]

\* C14: get_betting_summary equals the recomputation from the history:
\* successful and failed counts, the successful stakes, the sum of the race
\* exposures (equal to the stakes) and the number of races in the ledger.
C14_SummaryMatchesHistory ==
    /\ get_betting_summary = SummaryFromHistory
    /\ get_betting_summary.total_exposure = get_betting_summary.total_staked
    /\ bm_call.op = "get_betting_summary" => bm_ret = Some(SummaryFromHistory)

\* C14 witness: a summary returned after two successful bets and a failed one
C14_Witness ==
    /\ bm_call.op = "get_betting_summary"
    /\ bm_ret = Some([total_bets |-> 2, failed_bets |-> 1, total_staked |-> 30,
                      races_bet_on |-> 2, total_exposure |-> 30])

ReadOnlyOps == {"can_bet_on_race", "get_race_exposure", "get_total_exposure",
                "get_bet_count", "get_betting_summary"}

\* C15: get_betting_summary, can_bet_on_race, get_race_exposure and
\* get_total_exposure leave the ledger and the history unchanged; a query of
\* an unseen race id creates no ledger entry.
C15_QueriesReadOnly ==
    [][bm_call'.op \in ReadOnlyOps =>
           /\ race_exposure' = race_exposure
           /\ DOMAIN race_exposure' = DOMAIN race_exposure
           /\ placed_bets' = placed_bets]_vars

\* C15 witness: get_race_exposure of the unseen race returned 0 and the
\* ledger still has no entry for it
C15_Witness ==
    /\ bm_call = [op |-> "get_race_exposure", market_id |-> UnseenMarketId]
    /\ bm_ret = Some(0)
    /\ DOMAIN race_exposure = {"1.101"}
    /\ Len(placed_bets) = 1


(***************************************************************************)
(* Claims about concurrent callers (checked under SpecConc)                *)
(***************************************************************************)
BothReturned == \A t \in Threads : ThreadAt(t, "returned")
InHistory(t) == \E i \in 1..Len(placed_bets) : placed_bets[i] = threads[t].bet_record

\* C16: record_bet is atomic with respect to concurrent callers: when two
\* threads have both recorded a successful result for the same race, the
\* history holds both entries and the race's exposure is the sum of the
\* successful stakes of the history, so that no update is lost.
C16_RecordBetAtomic ==
    (/\ BothReturned
     /\ threads[1].market_id = threads[2].market_id
     /\ Succeeded(threads[1].bet_result)
     /\ Succeeded(threads[2].bet_result)) =>
        /\ InHistory(1)
        /\ InHistory(2)
        /\ Len(placed_bets) >= 2
        /\ ExposureIn(race_exposure, threads[1].market_id)
               = SuccessStake(threads[1].market_id, Len(placed_bets))

(***************************************************************************)
(* Claims about the bot loop (checked under SpecBot)                       *)
(***************************************************************************)
\* a step that submits an order, and the order it submits
Submits == Len(orders') = Len(orders) + 1
NewOrder == orders'[Len(orders')]
\* a step that is one pass of the runner loop ending at the price lookups or
\* at the pricing decision
RunnerStep ==
    /\ BotAt("for_runner")
    /\ \/ bot'.pc = "check_stop_loss"
       \/ bot'.pc = "for_runner" /\ bot'.runner_idx = bot.runner_idx + 1

\* C17: every order submission of process_race is made in a state whose
\* last BetManager call is can_bet_on_race for the race of the order, made
\* in the same runner iteration and returning true; no record_bet (nor any
\* other ledger call) lies between that check and the submission, so the
\* result of an earlier runner's check is never reused.
C17_CheckImmediatelyBeforeSubmission ==
    [][Submits =>
          /\ NewOrder.race = bot.market_id
          /\ bm_call = [op |-> "can_bet_on_race", market_id |-> NewOrder.race]
          /\ bm_ret = Some(TRUE)
          /\ last_check = Some(Iteration)]_vars

\* C17 witness: two orders were submitted for one race, the second one
\* after the first was recorded
C17_Witness ==
    /\ Len(orders) >= 2
    /\ orders[1].race = orders[2].race
    /\ Len(placed_bets) >= 1
    /\ BotAt("record_bet")

\* C18: once can_bet_on_race has returned false for a race, no step submits
\* an order for that race, and the race is in processed_races as soon as the
\* runner loop, which is left at once, has been left.
C18_GateClosedEndsRace ==
    [][/\ Submits => NewOrder.race \notin gate_closed
       /\ \A m \in gate_closed' :
              \/ m \in bot'.processed_races
              \/ bot'.pc = "race_end" /\ bot'.market_id = m]_vars

\* C18 witness: a later scan presents again a race whose gate was closed
C18_Witness ==
    /\ BotAt("process_race")
    /\ bot.running
    /\ bot.cycles >= 2
    /\ CurrentRace.market_id \in gate_closed
    /\ Len(orders) < MaxBets

\* C19: a step submits an order only if the last should_bet call was made in
\* the same runner iteration with that iteration's win lay and place back
\* price and returned a favorable decision; the order carries that place
\* back price, the configured stake, the runner's selection and the race's
\* place market.  A runner iteration that finds the win or the place price
\* missing makes no should_bet call and no order and moves to the next runner.
C19_OrderOnlyOnFavorableDecision ==
    [][/\ Submits =>
              /\ bot.win_lay_price # None
              /\ bot.place_back_price # None
              /\ calc_call = Some([win_lay_price |-> bot.win_lay_price[1],
                                   actual_place_price |-> bot.place_back_price[1],
                                   num_runners |-> bot.num_runners])
              /\ calc_ret[1] = TRUE
              /\ last_eval = Some(Iteration)
              /\ NewOrder.price = bot.place_back_price[1]
              /\ NewOrder.stake = stake
              /\ NewOrder.selection_id = CurrentRunner.selection_id
              /\ NewOrder.market_id = bot.place_market_id
       /\ (RunnerStep /\ (bot'.win_lay_price = None \/ bot'.place_back_price = None)) =>
              /\ UNCHANGED <<calc_call, calc_local, calc_ret, last_eval, orders>>
              /\ bot'.pc = "for_runner"
              /\ bot'.runner_idx = bot.runner_idx + 1]_vars

\* C19 witness: an order was submitted for a race, and a later runner of
\* that race was skipped for its missing place price
C19_Witness ==
    /\ Len(orders) >= 1
    /\ orders[Len(orders)].race = bot.market_id
    /\ BotAt("for_runner")
    /\ bot.win_lay_price # None
    /\ bot.place_back_price = None
    /\ last_eval # Some([market_id |-> bot.market_id, runner_idx |-> bot.runner_idx - 1])

\* the k-th history entry reports the k-th order
Reported(k) ==
    /\ placed_bets[k].market_id = orders[k].race
    /\ placed_bets[k].selection_id = orders[k].selection_id
    /\ placed_bets[k].stake = orders[k].stake
    /\ placed_bets[k].price = orders[k].price
    /\ placed_bets[k].success = Get(orders[k].result, "success", FALSE)
    /\ placed_bets[k].bet_id = Get(orders[k].result, "bet_id", "N/A")
    /\ placed_bets[k].error = Get(orders[k].result, "error", NoneStr)

\* C20: every order is reported to the BetManager by exactly one record_bet
\* with the same race, selection, stake, price and result, before anything
\* else is evaluated or submitted: the history is one entry short of the
\* orders exactly while the bot stands between place_bet and record_bet, and
\* has the length of the orders everywhere else, entry by entry.
C20_EveryOrderRecorded ==
    /\ BotAt("record_bet") => Len(orders) = Len(placed_bets) + 1
    /\ ~BotAt("record_bet") => Len(orders) = Len(placed_bets)
    /\ \A k \in 1..Len(placed_bets) : Reported(k)

\* C20 witness: between two runner iterations, after an accepted and a
\* rejected order
C20_Witness ==
    /\ BotAt("for_runner")
    /\ Len(placed_bets) >= 2
    /\ \E j, k \in 1..Len(orders) : orders[j].result.success /\ ~orders[k].result.success

\* a step in which the bot calls should_bet, can_bet_on_race, place_bet or
\* record_bet
CoreCall ==
    \/ calc_call' # calc_call
    \/ last_eval' # last_eval
    \/ last_check' # last_check
    \/ bm_call' # bm_call
    \/ orders' # orders
    \/ placed_bets' # placed_bets
InBand(n) == n >= min_runners /\ n <= max_runners
\* a step of process_race from its entry to the runner loop or to a return
ProcessStep == BotAt("process_race") /\ bot'.pc # "process_race"

\* C23: a step that calls should_bet, can_bet_on_race, place_bet or
\* record_bet is made for a race whose runner count lies in
\* min_runners..max_runners; process_race for a race outside the band makes
\* no such call, marks the race processed and returns.
C23_OutOfBandNeverReachesCore ==
    [][/\ CoreCall =>
              /\ InBand(Len(CurrentRace.runners))
              /\ bot.market_id = CurrentRace.market_id
              /\ bot.num_runners = Len(CurrentRace.runners)
       /\ (ProcessStep /\ ~InBand(Len(CurrentRace.runners))) =>
              /\ ~CoreCall
              /\ CurrentRace.market_id \in bot'.processed_races
              /\ bot'.pc = "for_race"
              /\ bot'.race_idx = bot.race_idx + 1]_vars

\* C23 witness: the race below the band and the race above it are marked
\* processed in a run that has bet on another race
C23_Witness ==
    /\ {"1.103", "1.104"} \subseteq bot.processed_races
    /\ Len(placed_bets) >= 1
    /\ bot.outcome = "out_of_band"

\* C26: in every state of a bot run every race's exposure is strictly below
\* per_race_stop_loss + stake.
C26_ExposureBelowStopLossPlusStake ==
    \A m \in {Catalogue[k].market_id : k \in 1..Len(Catalogue)} :
        ExposureIn(race_exposure, m) < per_race_stop_loss + stake

\* C26 witness: a race's exposure has passed the stop-loss, and the gate
\* has closed on it
C26_Witness ==
    \E m \in gate_closed :
        /\ ExposureIn(race_exposure, m) > per_race_stop_loss
        /\ ExposureIn(race_exposure, m) < per_race_stop_loss + stake

\* C28: the orders of a run have pairwise different (race, selection)
\* pairs; no core call is made for a race in processed_races;
\* processed_races only grows, and the statements after the runner loop put
\* the race into it.
C28_OneOrderPerSelection ==
    [][/\ \A j, k \in 1..Len(orders') :
              (orders'[j].race = orders'[k].race
               /\ orders'[j].selection_id = orders'[k].selection_id) => j = k
       /\ CoreCall => CurrentRace.market_id \notin bot.processed_races
       /\ bot.processed_races \subseteq bot'.processed_races
       /\ (BotAt("race_end") /\ bot'.pc # "race_end") =>
              bot.market_id \in bot'.processed_races]_vars

\* C28 witness: a later scan presents again a race an order of which was
\* rejected
C28_Witness ==
    /\ BotAt("process_race")
    /\ bot.running
    /\ Len(orders) < MaxBets
    /\ CurrentRace.market_id \in bot.processed_races
    /\ \E k \in 1..Len(orders) :
           orders[k].race = CurrentRace.market_id /\ ~orders[k].result.success

\* C30: process_race leaves processed_races as it is when the win-market or
\* the place-market prices could not be fetched, and adds the race when its
\* runner count is outside the band or it has no place market; a listed race
\* that is not in processed_races is examined whenever the loop of a running
\* bot comes to it, and a race in processed_races is left at the first test.
C30_RetryOnFetchFailureOnly ==
    [][/\ (ProcessStep /\ bot'.outcome \in {"no_win_prices", "no_place_prices"}) =>
              /\ bot'.processed_races = bot.processed_races
              /\ CurrentRace.market_id \notin bot'.processed_races
       /\ (ProcessStep /\ bot'.outcome \in {"out_of_band", "no_place_market"}) =>
              CurrentRace.market_id \in bot'.processed_races
       /\ (ProcessStep /\ CurrentRace.market_id \notin bot.processed_races) =>
              bot'.outcome # "already_processed"
       /\ (ProcessStep /\ CurrentRace.market_id \in bot.processed_races) =>
              /\ bot'.outcome = "already_processed"
              /\ ~CoreCall
              /\ bot'.pc = "for_race"
       /\ (BotAt("for_race") /\ bot.running /\ bot.race_idx <= Len(bot.races)
           /\ bot'.pc # "for_race") => bot'.pc = "process_race"]_vars

\* C30 witness: a race whose price fetch failed in an earlier cycle has its
\* runners examined, while a race without a place market stays processed
C30_Witness ==
    /\ BotAt("for_runner")
    /\ bot.cycles >= 2
    /\ bot.market_id \in bot.fetch_failed
    /\ bot.processed_races \ {"1.103", "1.104"} # {}

(***************************************************************************)
(* The ledger and its history (checked under Spec)                         *)
(***************************************************************************)
\* the races with at least one successful history entry
RacesWithSuccess ==
    {placed_bets[k].market_id : k \in {j \in 1..Len(placed_bets) : placed_bets[j].success}}

\* C29: in every ledger state the stored exposure of every race is the sum
\* of the stakes of the race's successful history entries, and the races
\* with a ledger entry are exactly the races with a successful entry.
C29_LedgerMatchesHistory ==
    /\ \A m \in QueryIds :
           ExposureIn(race_exposure, m) = SuccessStake(m, Len(placed_bets))
    /\ \A m \in DOMAIN race_exposure :
           race_exposure[m] = SuccessStake(m, Len(placed_bets))
    /\ DOMAIN race_exposure = RacesWithSuccess

\* C29 witness: one race has two successful entries and a failed one, the
\* other race only a failed one, and a query has been answered
C29_Witness ==
    /\ DOMAIN race_exposure = {"1.101"}
    /\ race_exposure["1.101"] = 30
    /\ \E k \in 1..Len(placed_bets) :
           placed_bets[k].market_id = "1.102" /\ ~placed_bets[k].success
    /\ Len(placed_bets) = 3

(***************************************************************************)
(* Concurrent pricing calls (checked under SpecCalcConc)                   *)
(***************************************************************************)
HasReturned(t) == ThreadAt(t, "returned")

C24_StatusNeverTorn ==
    stats_io.snapshot # None =>
        stats_io.snapshot[1].total_bets
            = stats_io.snapshot[1].successful_bets + stats_io.snapshot[1].failed_bets

(***************************************************************************)
(* The life of the bot threads (checked under SpecLife)                    *)
(***************************************************************************)
LoopPcs == {"while", "for_race", "for_runner", "place_bet"}
\* thread t is in BotRunner.run's loop and the running flag it tests is set
Active(t) == runs[t].pc \in LoopPcs /\ Self(t).running
\* thread t passes the running test of the race loop and enters process_race
BeginsRace(t) == runs[t].pc = "for_race" /\ runs'[t].pc = "for_runner"
\* thread t passes the running test of the runner loop
BeginsRunner(t) ==
    /\ runs[t].pc = "for_runner"
    /\ runs'[t].pc = "place_bet" \/ runs'[t].runner_idx = runs[t].runner_idx + 1
SubmitsOrder(t) == Len(orders') = Len(orders) + 1 /\ orders'[Len(orders')].thread = t

\* C21: once stop_bot has been accepted, at any point after the start_bot it
\* answers (the thread may still be initializing), the cancelled run begins
\* no race iteration and no runner iteration, and submits no order begun
\* after the stop.
C21_CancelledRunBeginsNothing ==
    [][\A t \in ThreadIds :
           runs[t].cancelled => ~BeginsRace(t) /\ ~BeginsRunner(t)]_vars

\* C22: when a thread's loop starts, the BetManager of the BotRunner it runs
\* has no exposure and no history, and no BetManager is ever read or written
\* by two threads.
C22_FreshUnsharedLedger ==
    [][/\ \A t \in ThreadIds :
              (runs[t].pc = "run" /\ runs'[t].pc = "while"
                   /\ instances'[runs'[t].self].bet_manager # 0) =>
                  LET bm == managers'[instances'[runs'[t].self].bet_manager]
                  IN  bm.race_exposure = <<>> /\ bm.placed_bets = <<>>
       /\ \A k \in 1..Len(managers') : Cardinality(managers'[k].users) <= 1]_vars

\* C27: never two threads in BotRunner.run's loop with their running flag
\* set, whatever the order of start_bot, stop_bot and the threads' steps.
C27_AtMostOneActiveRun ==
    Cardinality({t \in ThreadIds : Active(t)}) <= 1
====
